---- MODULE Spec2Model ----
(***************************************************************************)
(* svatoms: createModelDataContext over svelte/store and svelte context.   *)
(*                                                                         *)
(* The state is the component tree (each component's lifecycle phase, its  *)
(* context map and its onDestroy callbacks), the writable stores (value    *)
(* and ordered subscriber list), the selector stores made by               *)
(* createSelectorStore, and the action handles made by useModelActions.    *)
(* svelte's writable/readable/get, setContext/getContext and onDestroy are *)
(* modelled by what they do, as the library implements them.               *)
(***************************************************************************)
EXTENDS Integers, Sequences, FiniteSets, TLC

(* ------------------------------ bounds --------------------------------- *)
\* components 1..NumComps; component c's parent is c \div 2 (1 is the root,
\* 2 and 3 are sibling children of the root)
NumComps == 3
\* contexts made by createModelDataContext; context x owns global store x
NumContexts == 2
\* stores that exist in a run: the global ones plus the local ones
MaxStores == 4
\* model objects o1..oN: the post with id 1 and likes = i \div 2
NumObjs == 2
\* selector stores created by selectModelData
MaxSelectors == 2
\* consumers that may subscribe to selector stores
NumConsumers == 2
\* observers that may subscribe to a writable store directly: odd ones only
\* record what they are told, even ones also write back (see Reacts)
NumObservers == 2
\* mountModelData calls of one component: the different (store,
\* resetOnDestroy) pairs, and the onDestroy callbacks registered
MaxMounts == 2
\* a subscription's log keeps the last MaxLog values delivered to it
MaxLog == 2

Comps == 1..NumComps
Contexts == 1..NumContexts
Stores == 1..MaxStores
SelIds == 1..MaxSelectors
Consumers == 1..NumConsumers
Observers == 1..NumObservers

None == 0
Parent(c) == c \div 2

(* ------------------------------ values --------------------------------- *)
\* Model | null, and the results of the projections.  Objects compare by
\* reference (their index); numbers by value.
Null == [k |-> "null", n |-> 0]
Obj(i) == [k |-> "obj", n |-> i]
Num(i) == [k |-> "num", n |-> i]
Models == {Null} \cup {Obj(i) : i \in 1..NumObjs}
Likes(v) == v.n \div 2

\* options of createModelDataContext for context x: odd contexts are made
\* with { name } only, even ones with { defaultScope: 'global', initial: o1 }
Undefined == [k |-> "undefined", n |-> 0]
OptionsOf(x) ==
    IF x % 2 = 1
    THEN [defaultScope |-> "undefined", initial |-> Undefined]
    ELSE [defaultScope |-> "global", initial |-> Obj(1)]

\* a ?? b
Coalesce(a, b) == IF a = Undefined \/ a = Null THEN b ELSE a

\* key = options.key ?? Symbol(name): a fresh symbol per context
KeyOf(x) == x
\* (mutant) one global store shared by every context
globalStoreSingleton(x) == 1

\* globalStore = writable(options.initial ?? null): store x is context x's
globalStore(x) == x
GlobalInitial(x) == Coalesce(OptionsOf(x).initial, Null)

\* the projections passed to selectModelData:
\*   "likes" is (p) => p?.likes ?? 0, "ident" is (p) => p
Project(f, v) ==
    IF f = "likes"
    THEN (IF v = Null THEN Num(0) ELSE Num(Likes(v)))
    ELSE v

\* a?.id: every model object is the post with id 1
IdOf(a) == IF a.k = "obj" THEN Num(1) ELSE Undefined

\* the equality functions: "is" is defaultEquals (Object.is), "id" is a
\* caller's opts.equals, (a, b) => a?.id === b?.id
defaultEquals(a, b) == a = b
Equals(eq, a, b) ==
    IF eq = "is" THEN defaultEquals(a, b) ELSE IdOf(a) = IdOf(b)

\* the selectors a component creates: projection and opts.equals
SelectorKinds ==
    { [f |-> "likes", eq |-> "is"],
      [f |-> "ident", eq |-> "is"],
      [f |-> "ident", eq |-> "id"] }

\* the updaters passed to update:
\*   "like" is (prev) => prev ? { ...prev, likes: prev.likes + 1 } : prev,
\*   "same" is (prev) => prev
\* The object "like" builds is the even-numbered object with one more like.
Updaters == {"like", "same"}
CanApply(fn, v) == fn = "like" /\ v # Null => 2 * (Likes(v) + 1) <= NumObjs
Apply(fn, v) ==
    IF fn = "like" /\ v # Null THEN Obj(2 * (Likes(v) + 1)) ELSE v

(* --------------------------- svelte/store ------------------------------ *)
\* (mutant) a comparison that lets every write through
always_not_equal(a, b) == TRUE

\* safe_not_equal(a, b):
\*   a != a ? b == b : a !== b || (a && typeof a === 'object') || typeof a === 'function'
\* (no NaN and no function among the values)
safe_not_equal(a, b) == a # b \/ a.k = "obj"

VARIABLES
    phase,      \* component -> "new" | "init" | "live" | "dead"
    context,    \* component -> key -> the store it registered with setContext
    destroy,    \* component -> its onDestroy callbacks: the stores they reset
    mounts,     \* component -> the mountModelData calls it made (history)
    nStores,    \* number of stores that exist
    value,      \* store -> its current value
    subs,       \* store -> its subscribers, in subscription order
    sels,       \* selector store -> its closure state (and who made it)
    cons,       \* consumer -> the selector it subscribes to and its log
    obs,        \* observer -> the store it subscribes to and its log
    handle,     \* component -> the store its useModelActions closures hold
    last        \* the operation that made the last step (history)

vars == <<phase, context, destroy, mounts, nStores, value, subs, sels, cons,
          obs, handle, last>>

\* the last MaxLog values of a log
Trunc(log) ==
    IF Len(log) <= MaxLog THEN log
    ELSE SubSeq(log, Len(log) - MaxLog + 1, Len(log))

\* what a call into svelte/store reads and changes: the stores, the
\* subscribers, svelte's subscriber_queue, and the calls made so far
Heap ==
    [value |-> value, sels |-> sels, cons |-> cons, obs |-> obs,
     subs |-> subs, queue |-> << >>, trace |-> << >>]

\* an entry of the trace of calls: writable.set entered ("set"), assigned
\* the value ("changed") and returned ("return") for store id, a subscriber
\* of a writable invoked
\* ("run", t is "obs" or "sel"), the selector function ("project") and the
\* equality function ("equals") of selector id called
Ev(e, t, id, v) == [e |-> e, t |-> t, id |-> id, v |-> v]
Called(h, e, t, id, v) == [h EXCEPT !.trace = Append(@, Ev(e, t, id, v))]

\* set() of the writable inside readable(initial, start) of selector k.
\* Its subscribers run only once start() has returned (stop is set).
readableSet(h, k, v) ==
    IF safe_not_equal(h.sels[k].value, v)
    THEN LET h1 == [h EXCEPT !.sels[k].value = v]
         IN IF h1.sels[k].stop
            THEN [h1 EXCEPT !.cons =
                    [i \in Consumers |->
                        IF h1.cons[i].sel = k
                        THEN [h1.cons[i] EXCEPT !.log = Trunc(Append(@, v))]
                        ELSE h1.cons[i]]]
            ELSE h1
    ELSE h

\* (mutant) the callback without the equality check
selectorCallbackNoEquals(h, k, v) ==
    LET next == Project(h.sels[k].f, v)
    IN readableSet([h EXCEPT !.sels[k].prev = next], k, next)

\* (mutant) the callback calling the selector function again for the value
\* it keeps
selectorCallbackTwice(h, k, v) ==
    LET next == Project(h.sels[k].f, v)
        h1 == Called(Called(h, "project", "sel", k, v),
                     "equals", "sel", k, next)
    IN IF ~Equals(h.sels[k].eq, h.sels[k].prev, next)
       THEN readableSet([Called(h1, "project", "sel", k, v)
                            EXCEPT !.sels[k].prev = next], k, next)
       ELSE h1

\* the callback createSelectorStore passes to source.subscribe
selectorCallback(h, k, v) ==
    LET next == Project(h.sels[k].f, v)
        h1 == Called(Called(h, "project", "sel", k, v),
                     "equals", "sel", k, next)
    IN IF ~Equals(h.sels[k].eq, h.sels[k].prev, next)
       THEN readableSet([h1 EXCEPT !.sels[k].prev = next], k, next)
       ELSE h1

\* the callbacks passed to store.subscribe by the observers.  An odd
\* observer records the value; an even one also likes, at once, a post
\* nobody likes yet:
\*   (v) => { seen.push(v); if (v && v.likes === 0) store.set(liked(v)) }
Reacts(o) == o % 2 = 0
Passive == {o \in Observers : ~Reacts(o)}
Triggers(v) == v # Null /\ Likes(v) = 0 /\ CanApply("like", v)

RECURSIVE writableSet(_, _, _)

observerCallback(h, o, v) ==
    LET h1 == [h EXCEPT !.obs[o].log = Trunc(Append(@, v))]
    IN IF Reacts(o) /\ Triggers(v)
       THEN writableSet(h1, h1.obs[o].store, Apply("like", v))
       ELSE h1

\* subscriber[0](value) of an entry of subscriber_queue
runSubscriber(h, e, v) ==
    IF e.t = "obs"
    THEN observerCallback(Called(h, "run", "obs", e.id, v), e.id, v)
    ELSE selectorCallback(Called(h, "run", "sel", e.id, v), e.id, v)

\* the loop over subscriber_queue: entries pushed while it runs (by a set()
\* a subscriber calls) are run by the same loop, after the entries before
\* them; the queue is emptied at the end
RECURSIVE runQueue(_, _)
runQueue(h, i) ==
    IF i > Len(h.queue) THEN [h EXCEPT !.queue = << >>]
    ELSE runQueue(runSubscriber(h, h.queue[i].sub, h.queue[i].v), i + 1)

\* (mutant) a set() that runs its subscribers itself, whatever is queued
writableSetNested(h, s, v) ==
    LET h0 == Called(h, "set", "store", s, v)
    IN IF safe_not_equal(h.value[s], v)
       THEN LET h1 == [Called(h0, "changed", "store", s, v) EXCEPT
                         !.value[s] = v,
                         !.queue = [n \in 1..Len(h.subs[s]) |->
                                      [sub |-> h.subs[s][n], v |-> v]]]
                h2 == [runQueue(h1, 1) EXCEPT !.queue = h.queue]
            IN Called(h2, "return", "store", s, v)
       ELSE Called(h0, "return", "store", s, v)

\* writable.set(new_value): nothing happens unless safe_not_equal; the
\* subscribers are pushed on subscriber_queue with the new value, in
\* subscription order, and the queue is run unless it is being run already
writableSet(h, s, v) ==
    LET h0 == Called(h, "set", "store", s, v)
    IN IF safe_not_equal(h.value[s], v)
       THEN LET h1 == [Called(h0, "changed", "store", s, v) EXCEPT
                         !.value[s] = v,
                         !.queue = @ \o [n \in 1..Len(h.subs[s]) |->
                                           [sub |-> h.subs[s][n], v |-> v]]]
                h2 == IF h.queue = << >> THEN runQueue(h1, 1) ELSE h1
            IN Called(h2, "return", "store", s, v)
       ELSE Called(h0, "return", "store", s, v)

\* writable.update(fn) is set(fn(value))
writableUpdate(h, s, fn) == writableSet(h, s, Apply(fn, h.value[s]))

\* get(store): subscribe, read, unsubscribe
get(h, s) == h.value[s]

(* -------------------------- svelte context ----------------------------- *)
\* (mutant) a lookup that sees only the component's own registration
getContextOwn(c, key) == IF c = None THEN None ELSE context[c][key]

\* getContext(key) called by component c: its own registration, else what
\* its parent sees (a component's context map starts as its parent's)
RECURSIVE getContext(_, _)
getContext(c, key) ==
    IF c = None THEN None
    ELSE IF context[c][key] # None THEN context[c][key]
    ELSE getContext(Parent(c), key)

\* (mutant) a registration that keeps what the component registered first
setContextFirstWins(c, key, store) ==
    IF context[c][key] # None THEN context
    ELSE [context EXCEPT ![c][key] = store]

\* setContext(key, store) called by component c
setContext(c, key, store) == [context EXCEPT ![c][key] = store]

(* ----------------------- createModelDataContext ------------------------ *)
Throw == -1

\* opts of provideModelData / mountModelData
Scopes == {"undefined", "local", "global"}
Flags == {"undefined", "true", "false"}
ProvideOpts == [store : {None} \cup Stores, scope : Scopes]

\* (mutant) options.defaultScope ?? opts.scope ?? 'local'
ResolvedScopeDefaultFirst(x, opts) ==
    IF OptionsOf(x).defaultScope # "undefined"
    THEN OptionsOf(x).defaultScope
    ELSE IF opts.scope # "undefined" THEN opts.scope ELSE "local"

\* opts.scope ?? options.defaultScope ?? 'local'
ResolvedScope(x, opts) ==
    IF opts.scope # "undefined" THEN opts.scope
    ELSE IF OptionsOf(x).defaultScope # "undefined"
         THEN OptionsOf(x).defaultScope
         ELSE "local"

\* does provideModelData call createLocalStore() ?
AllocatesStore(x, opts) ==
    opts.store = None /\ ResolvedScope(x, opts) # "global"

\* (mutant) one local store shared by every provider of the context
ChosenStoreShared(x, opts) ==
    IF opts.store # None THEN opts.store
    ELSE IF ResolvedScope(x, opts) = "global" THEN globalStore(x)
    ELSE NumContexts + 1

\* (mutant) the global store whatever the scope
ChosenStoreGlobal(x, opts) ==
    IF opts.store # None THEN opts.store ELSE globalStore(x)

\* the store provideModelData chooses
ChosenStore(x, opts) ==
    IF opts.store # None THEN opts.store
    ELSE IF ResolvedScope(x, opts) = "global" THEN globalStore(x)
    ELSE nStores + 1

\* useModelStore(fallback) called by component c
useModelStore(c, x, fallback) ==
    LET store == getContext(c, KeyOf(x))
    IN IF store # None THEN store
       ELSE IF fallback = "throw" THEN Throw
       ELSE globalStore(x)

\* the onDestroy callbacks of a component, in order: store.set(null) each
RECURSIVE runDestroy(_, _, _)
runDestroy(h, list, i) ==
    IF i > Len(list) THEN h
    ELSE runDestroy(writableSet(h, list[i], Null), list, i + 1)

\* the record of an operation: which one, the component that called it, the
\* store it was given or acted on, and the value it was given or returned
NoOpts == [store |-> None, scope |-> "undefined"]
Op(op, c, s, v) ==
    [op |-> op, comp |-> c, store |-> s, val |-> v, ctx |-> None,
     opts |-> NoOpts]
\* an operation of context x, and one called with opts
CtxOp(x, op, c, s, v) == [Op(op, c, s, v) EXCEPT !.ctx = x]
OptsOp(x, opts, op, c, s, v) ==
    [CtxOp(x, op, c, s, v) EXCEPT
        !.opts = [store |-> opts.store, scope |-> opts.scope]]

Init ==
    /\ phase = [c \in Comps |-> "new"]
    /\ context = [c \in Comps |-> [key \in Contexts |-> None]]
    /\ destroy = [c \in Comps |-> << >>]
    /\ mounts = [c \in Comps |-> {}]
    /\ nStores = NumContexts
    /\ value = [s \in Stores |->
                  IF s \in Contexts THEN GlobalInitial(s) ELSE Null]
    /\ subs = [s \in Stores |-> << >>]
    /\ sels = [k \in SelIds |->
                 [src |-> None, f |-> "ident", eq |-> "is", initial |-> Null,
                  prev |-> Null, value |-> Null, stop |-> FALSE,
                  owner |-> None]]
    /\ cons = [i \in Consumers |-> [sel |-> None, log |-> << >>]]
    /\ obs = [o \in Observers |-> [store |-> None, log |-> << >>]]
    /\ handle = [c \in Comps |-> [ctx |-> None, store |-> None]]
    /\ last = Op("init", None, None, Null)

SetHeap(h) ==
    /\ value' = h.value
    /\ sels' = h.sels
    /\ cons' = h.cons
    /\ obs' = h.obs

(* component lifecycle *)
\* a component's script starts: its parent (if any) has been set up, and no
\* other script is running (scripts run to completion)
Create(c) ==
    /\ phase[c] = "new"
    /\ Parent(c) # None => phase[Parent(c)] = "live"
    /\ \A d \in Comps : phase[d] # "init"
    /\ phase' = [phase EXCEPT ![c] = "init"]
    /\ last' = Op("create", c, None, Null)
    /\ UNCHANGED <<context, destroy, mounts, nStores, value, subs, sels,
                   cons, obs, handle>>

\* the script has run
Ready(c) ==
    /\ phase[c] = "init"
    /\ phase' = [phase EXCEPT ![c] = "live"]
    /\ last' = Op("ready", c, None, Null)
    /\ UNCHANGED <<context, destroy, mounts, nStores, value, subs, sels,
                   cons, obs, handle>>

\* the component is torn down: its onDestroy callbacks run
Destroy(c) ==
    /\ phase[c] = "live"
    /\ phase' = [phase EXCEPT ![c] = "dead"]
    /\ SetHeap(runDestroy(Heap, destroy[c], 1))
    /\ last' = Op("destroy", c, None, Null)
    /\ UNCHANGED <<context, destroy, mounts, nStores, subs, handle>>

\* createLocalStore(initial)
CreateLocalStore(initial) ==
    /\ nStores < MaxStores
    /\ nStores' = nStores + 1
    /\ value' = [value EXCEPT ![nStores + 1] = Coalesce(initial, Null)]
    /\ last' = Op("createLocalStore", None, nStores + 1, initial)
    /\ UNCHANGED <<phase, context, destroy, mounts, subs, sels, cons, obs,
                   handle>>

\* provideModelData(data, opts) called by component c
ProvideModelData(c, x, data, opts) ==
    /\ phase[c] = "init"
    /\ opts.store <= nStores
    /\ AllocatesStore(x, opts) => nStores < MaxStores
    /\ LET store == ChosenStore(x, opts)
       IN /\ nStores' = IF AllocatesStore(x, opts) THEN nStores + 1 ELSE nStores
          /\ context' = setContext(c, KeyOf(x), store)
          /\ SetHeap(writableSet(Heap, store, data))
          /\ last' = OptsOp(x, opts, "provide", c, store, data)
    /\ UNCHANGED <<phase, destroy, mounts, subs, handle>>

\* (mutant) if (opts.resetOnDestroy)
resetOnDestroyTruthy(opts) == opts.resetOnDestroy = "true"

\* (mutant) the reset registered whatever the option
resetOnDestroyAlways(opts) == TRUE

\* opts.resetOnDestroy !== false
resetOnDestroy(opts) == opts.resetOnDestroy # "false"

\* mountModelData(data, opts) called by component c
MountModelData(c, x, data, opts) ==
    /\ phase[c] = "init"
    /\ Cardinality(mounts[c] \cup {[store |-> ChosenStore(x, opts),
                     resetOnDestroy |-> opts.resetOnDestroy]}) <= MaxMounts
    /\ Len(destroy[c]) < MaxMounts
    /\ opts.store <= nStores
    /\ AllocatesStore(x, opts) => nStores < MaxStores
    /\ LET store == ChosenStore(x, opts)
       IN /\ nStores' = IF AllocatesStore(x, opts) THEN nStores + 1 ELSE nStores
          /\ context' = setContext(c, KeyOf(x), store)
          /\ SetHeap(writableSet(Heap, store, data))
          /\ destroy' = IF resetOnDestroy(opts)
                        THEN [destroy EXCEPT ![c] = Append(@, store)]
                        ELSE destroy
          /\ mounts' = [mounts EXCEPT ![c] =
                          @ \cup {[store |-> store,
                                   resetOnDestroy |-> opts.resetOnDestroy]}]
          /\ last' = OptsOp(x, opts, "mount", c, store, data)
    /\ UNCHANGED <<phase, subs, handle>>

\* provideModelStore(store) called by component c
ProvideModelStore(c, x, store) ==
    /\ phase[c] = "init"
    /\ store <= nStores
    /\ context' = setContext(c, KeyOf(x), store)
    /\ last' = CtxOp(x, "provideStore", c, store, Null)
    /\ UNCHANGED <<phase, destroy, mounts, nStores, value, subs, sels, cons,
                   obs, handle>>

\* useModelStore(fallback) called by component c
UseModelStore(c, x, fallback) ==
    /\ phase[c] = "init"
    /\ last' = CtxOp(x, "useModelStore", c, useModelStore(c, x, fallback),
                     Null)
    /\ UNCHANGED <<phase, context, destroy, mounts, nStores, value, subs,
                   sels, cons, obs, handle>>

\* (mutant) a selector store that starts from the projection of null
createSelectorStoreNoInitial(source, f, eq) ==
    [src |-> source, f |-> f, eq |-> eq, initial |-> Project(f, Null),
     prev |-> Project(f, Null), value |-> Project(f, Null), stop |-> FALSE,
     owner |-> None]

\* createSelectorStore(source, selector, equals): the closure state of the
\* readable it returns; nobody subscribes yet
createSelectorStore(source, f, eq) ==
    LET initial == Project(f, get(Heap, source))
    IN [src |-> source, f |-> f, eq |-> eq, initial |-> initial,
        prev |-> initial, value |-> initial, stop |-> FALSE,
        owner |-> None]

\* the next selector slot
FreeSel == CHOOSE k \in SelIds : sels[k].src = None /\
                \A j \in SelIds : j < k => sels[j].src # None

\* selectModelData(selector, opts) called by component c (an error thrown
\* by useModelStore would end the call)
SelectModelData(c, x, kind) ==
    /\ phase[c] = "init"
    /\ \E k \in SelIds : sels[k].src = None
    /\ LET store == useModelStore(c, x, "global")
       IN /\ sels' = IF store = Throw THEN sels
                     ELSE [sels EXCEPT ![FreeSel] =
                             [createSelectorStore(store, kind.f, kind.eq)
                                 EXCEPT !.owner = c]]
          /\ last' = CtxOp(x, "select", c, store, Null)
    /\ UNCHANGED <<phase, context, destroy, mounts, nStores, value, subs,
                   cons, obs, handle>>

\* useModelActions() called by component c: store = useModelStore()
UseModelActions(c, x) ==
    /\ phase[c] = "init"
    /\ handle[c].store = None
    /\ LET store == useModelStore(c, x, "global")
       IN /\ handle' = IF store = Throw THEN handle
                       ELSE [handle EXCEPT ![c] = [ctx |-> x, store |-> store]]
          /\ last' = CtxOp(x, "useModelActions", c, store, Null)
    /\ UNCHANGED <<phase, context, destroy, mounts, nStores, value, subs,
                   sels, cons, obs>>

\* (mutant) closures that look the store up when they are called
closureStoreLate(c) == useModelStore(c, handle[c].ctx, "global")

\* the store the closures of component c's handle act on
closureStore(c) == handle[c].store

\* the closure setModelData(value) of component c's handle, called any time
HandleSet(c, v) ==
    /\ handle[c].store # None
    /\ SetHeap(writableSet(Heap, closureStore(c), v))
    /\ last' = Op("handleSet", c, closureStore(c), v)
    /\ UNCHANGED <<phase, context, destroy, mounts, nStores, subs, handle>>

\* the closure updateModelData(updater) of component c's handle
HandleUpdate(c, fn) ==
    /\ handle[c].store # None
    /\ CanApply(fn, value[closureStore(c)])
    /\ SetHeap(writableUpdate(Heap, closureStore(c), fn))
    /\ last' = Op("handleUpdate", c, closureStore(c),
                  Apply(fn, value[closureStore(c)]))
    /\ UNCHANGED <<phase, context, destroy, mounts, nStores, subs, handle>>

\* the closure getModelData() of component c's handle
HandleGet(c) ==
    /\ handle[c].store # None
    /\ last' = Op("handleGet", c, closureStore(c), get(Heap, closureStore(c)))
    /\ UNCHANGED <<phase, context, destroy, mounts, nStores, value, subs,
                   sels, cons, obs, handle>>

\* (mutant) useModelStore('throw')
useModelStoreThrow(c, x) == useModelStore(c, x, "throw")

\* useModelStore(): the fallback defaults to 'global'
useModelStoreDefault(c, x) == useModelStore(c, x, "global")

\* setModelData(value) of the context, called by component c (an error
\* thrown by useModelStore would end the call)
SetModelData(c, x, v) ==
    /\ phase[c] = "init"
    /\ LET store == useModelStoreDefault(c, x)
       IN /\ IF store = Throw THEN UNCHANGED <<value, sels, cons, obs>>
             ELSE SetHeap(writableSet(Heap, store, v))
          /\ last' = CtxOp(x, "set", c, store, v)
    /\ UNCHANGED <<phase, context, destroy, mounts, nStores, subs, handle>>

\* updateModelData(updater) of the context, called by component c
UpdateModelData(c, x, fn) ==
    /\ phase[c] = "init"
    /\ LET store == useModelStoreDefault(c, x)
       IN IF store = Throw
          THEN /\ last' = CtxOp(x, "update", c, store, Null)
               /\ UNCHANGED <<value, sels, cons, obs>>
          ELSE /\ CanApply(fn, value[store])
               /\ SetHeap(writableUpdate(Heap, store, fn))
               /\ last' = CtxOp(x, "update", c, store,
                                Apply(fn, value[store]))
    /\ UNCHANGED <<phase, context, destroy, mounts, nStores, subs, handle>>

\* getModelData() of the context, called by component c
GetModelData(c, x) ==
    /\ phase[c] = "init"
    /\ LET store == useModelStoreDefault(c, x)
       IN last' = CtxOp(x, "get", c, store,
                        IF store = Throw THEN Null ELSE get(Heap, store))
    /\ UNCHANGED <<phase, context, destroy, mounts, nStores, value, subs,
                   sels, cons, obs, handle>>

\* setGlobalModelData(value) with a plain value
SetGlobalModelData(x, v) ==
    /\ SetHeap(writableSet(Heap, globalStore(x), v))
    /\ last' = CtxOp(x, "setGlobal", None, globalStore(x), v)
    /\ UNCHANGED <<phase, context, destroy, mounts, nStores, subs, handle>>

\* setGlobalModelData(updater) with a function
SetGlobalModelDataFn(x, fn) ==
    /\ CanApply(fn, value[globalStore(x)])
    /\ SetHeap(writableUpdate(Heap, globalStore(x), fn))
    /\ last' = CtxOp(x, "setGlobal", None, globalStore(x),
                  Apply(fn, value[globalStore(x)]))
    /\ UNCHANGED <<phase, context, destroy, mounts, nStores, subs, handle>>

\* getGlobalModelData()
GetGlobalModelData(x) ==
    /\ last' = CtxOp(x, "getGlobal", None, globalStore(x),
                  get(Heap, globalStore(x)))
    /\ UNCHANGED <<phase, context, destroy, mounts, nStores, value, subs,
                   sels, cons, obs, handle>>

\* (mutant) if (data) store.set(data)
SyncModelDataTruthy(s, data) ==
    /\ s <= nStores
    /\ IF data = Null THEN UNCHANGED <<value, sels, cons, obs>>
       ELSE SetHeap(writableSet(Heap, s, data))
    /\ last' = Op("sync", None, s, data)
    /\ UNCHANGED <<phase, context, destroy, mounts, nStores, subs, handle>>

\* syncModelData(store, data)
SyncModelData(s, data) ==
    /\ s <= nStores
    /\ SetHeap(writableSet(Heap, s, data))
    /\ last' = Op("sync", None, s, data)
    /\ UNCHANGED <<phase, context, destroy, mounts, nStores, subs, handle>>

(* subscriptions *)
SubscribersOf(cs, k) == {i \in Consumers : cs[i].sel = k}

\* (mutant) a selector wired to the global store
sourceOfGlobal(k) == globalStore(1)

\* the source store selector k was created with
sourceOf(k) == sels[k].src

\* (mutant) a start function that does not look at the source's value
startSelectorStale(h, k) ==
    LET h1 == readableSet([h EXCEPT !.sels[k].prev = h.sels[k].initial],
                          k, h.sels[k].initial)
    IN [h1 EXCEPT !.sels[k].stop = TRUE]

\* the start function of the readable of selector k, run for its first
\* subscriber: prev = initial; set(prev); source.subscribe(callback), which
\* calls the callback at once with the source's value
startSelector(h, k) ==
    LET h1 == readableSet([h EXCEPT !.sels[k].prev = h.sels[k].initial],
                          k, h.sels[k].initial)
        h2 == selectorCallback(h1, k, h1.value[sourceOf(k)])
    IN [h2 EXCEPT !.sels[k].stop = TRUE]

\* (mutant) a start function run for every subscriber
IsFirstAlways(cs, k) == TRUE

\* subscribers.size === 1 after the add: the readable has no subscriber yet
IsFirst(cs, k) == SubscribersOf(cs, k) = {}

\* consumer i subscribes to selector store k
SubscribeSelector(i, k) ==
    /\ cons[i].sel = None
    /\ sels[k].src # None
    /\ LET first == IsFirst(cons, k)
           h == IF first THEN startSelector(Heap, k) ELSE Heap
       IN /\ subs' = IF first
                     THEN [subs EXCEPT ![sourceOf(k)] =
                             Append(@, [t |-> "sel", id |-> k])]
                     ELSE subs
          /\ sels' = h.sels
          /\ cons' = [h.cons EXCEPT ![i] =
                        [sel |-> k, log |-> <<h.sels[k].value>>]]
    /\ last' = Op("subscribeSelector", None, None, Null)
    /\ UNCHANGED <<phase, context, destroy, mounts, nStores, value, obs,
                   handle>>

\* (mutant) an unsubscribe that leaves the subscriber in place
RemoveNothing(list, e) == list

\* subscribers.delete(subscriber)
Remove(list, e) == SelectSeq(list, LAMBDA y : y # e)

\* consumer i unsubscribes; the last one out runs stop(), the unsubscribe
\* function source.subscribe returned (prev dies with the closure)
UnsubscribeSelector(i) ==
    /\ cons[i].sel # None
    /\ LET k == cons[i].sel
           left == SubscribersOf(cons, k) \ {i} = {}
       IN /\ cons' = [cons EXCEPT ![i] = [sel |-> None, log |-> << >>]]
          /\ subs' = IF left
                     THEN [subs EXCEPT ![sourceOf(k)] =
                             Remove(@, [t |-> "sel", id |-> k])]
                     ELSE subs
          /\ sels' = IF left
                     THEN [sels EXCEPT ![k].stop = FALSE,
                                       ![k].prev = sels[k].initial]
                     ELSE sels
    /\ last' = Op("unsubscribeSelector", None, None, Null)
    /\ UNCHANGED <<phase, context, destroy, mounts, nStores, value, obs,
                   handle>>

\* observer o subscribes to writable store s: store.subscribe(run) adds
\* the subscriber and calls run(value)
SubscribeStore(o, s) ==
    /\ obs[o].store = None
    /\ s <= nStores
    /\ subs' = [subs EXCEPT ![s] = Append(@, [t |-> "obs", id |-> o])]
    /\ SetHeap(observerCallback(
                  [Heap EXCEPT !.subs = subs',
                               !.obs[o] = [store |-> s, log |-> << >>]],
                  o, value[s]))
    /\ last' = Op("subscribeStore", None, s, value[s])
    /\ UNCHANGED <<phase, context, destroy, mounts, nStores, handle>>

\* observer o unsubscribes
UnsubscribeStore(o) ==
    /\ obs[o].store # None
    /\ subs' = [subs EXCEPT ![obs[o].store] =
                  Remove(@, [t |-> "obs", id |-> o])]
    /\ obs' = [obs EXCEPT ![o] = [store |-> None, log |-> << >>]]
    /\ last' = Op("unsubscribeStore", None, None, Null)
    /\ UNCHANGED <<phase, context, destroy, mounts, nStores, value, sels,
                   cons, handle>>

(* ------------------------- the specifications -------------------------- *)
\* The operations are checked in scenarios: each specification lets the
\* components make the calls named in its next-state relation, with the
\* arguments drawn from the sets given there.

Opts(store, scope, reset) ==
    [store |-> store, scope |-> scope, resetOnDestroy |-> reset]

\* Selectors of the global store: a component selects (nothing is mounted),
\* consumers come and go, and the global store is written.
NextSelect ==
    \/ Create(1)
    \/ Ready(1)
    \/ \E kind \in SelectorKinds : SelectModelData(1, 1, kind)
    \/ \E v \in Models : SetGlobalModelData(1, v)
    \/ \E fn \in Updaters : SetGlobalModelDataFn(1, fn)
    \/ \E i \in Consumers, k \in SelIds : SubscribeSelector(i, k)
    \/ \E i \in Consumers : UnsubscribeSelector(i)

SpecSelect == Init /\ [][NextSelect]_vars

\* A store with a direct subscriber that only records: a component mounts
\* (local or global scope), binds its actions, and the stores are written
\* by the closures, by syncModelData and setGlobalModelData, and by the
\* teardown.
NextObserve ==
    \/ Create(1)
    \/ Ready(1)
    \/ Destroy(1)
    \/ \E d \in Models, scope \in {"undefined", "global"} :
          MountModelData(1, 1, d, Opts(None, scope, "undefined"))
    \/ UseModelActions(1, 1)
    \/ \E v \in Models : HandleSet(1, v)
    \/ \E fn \in Updaters : HandleUpdate(1, fn)
    \/ \E s \in Stores, d \in Models : SyncModelData(s, d)
    \/ \E v \in Models : SetGlobalModelData(1, v)
    \/ \E o \in Passive, s \in Stores : SubscribeStore(o, s)
    \/ \E o \in Passive : UnsubscribeStore(o)

SpecObserve == Init /\ [][NextObserve]_vars

\* The scope registry: every component provides, mounts or injects stores
\* and resolves the current store.
NextScope ==
    \/ \E c \in Comps : Create(c)
    \/ \E c \in Comps : Ready(c)
    \/ CreateLocalStore(Undefined)
    \/ \E c \in Comps, o \in ProvideOpts :
          ProvideModelData(c, 1, Obj(1), o)
    \/ \E c \in Comps :
          MountModelData(c, 1, Obj(1), Opts(None, "undefined", "undefined"))
    \/ \E c \in Comps, s \in Stores : ProvideModelStore(c, 1, s)
    \/ \E c \in Comps, fb \in {"global", "throw"} : UseModelStore(c, 1, fb)

SpecScope == Init /\ [][NextScope]_vars

\* Mount and teardown: a parent and a child mount into the global store or
\* a local one, with every resetOnDestroy, and are torn down; the global
\* store is also written directly.
NextMount ==
    \/ \E c \in {1, 2} : Create(c)
    \/ \E c \in {1, 2} : Ready(c)
    \/ \E c \in {1, 2} : Destroy(c)
    \/ \E c \in {1, 2}, d \in {Null, Obj(1)},
          scope \in {"undefined", "global"}, reset \in Flags :
          MountModelData(c, 1, d, Opts(None, scope, reset))
    \/ \E c \in {1, 2} :
          ProvideModelData(c, 1, Obj(2), [store |-> None, scope |-> "global"])
    \/ \E v \in {Null, Obj(1)} : SetGlobalModelData(1, v)

SpecMount == Init /\ [][NextMount]_vars

\* Bound actions: a parent and a child bind their actions, register stores
\* before and after binding, call the closures at any time, and are torn
\* down.
NextActions ==
    \/ \E c \in {1, 2} : Create(c)
    \/ \E c \in {1, 2} : Ready(c)
    \/ \E c \in {1, 2} : Destroy(c)
    \/ \E c \in {1, 2} : UseModelActions(c, 1)
    \/ \E c \in {1, 2} :
          MountModelData(c, 1, Obj(1), Opts(None, "undefined", "undefined"))
    \/ \E c \in {1, 2} :
          ProvideModelData(c, 1, Obj(1), [store |-> None, scope |-> "global"])
    \/ \E c \in {1, 2}, s \in Stores : ProvideModelStore(c, 1, s)
    \/ \E c \in {1, 2}, v \in Models : HandleSet(c, v)
    \/ \E c \in {1, 2}, fn \in Updaters : HandleUpdate(c, fn)
    \/ \E c \in {1, 2} : HandleGet(c)

SpecActions == Init /\ [][NextActions]_vars

\* Sibling subtrees: under a root that registers nothing, two siblings each
\* select, mount with scope local and set or update the current store (in
\* any order), a consumer subscribes to one selector or the other, and the
\* stores are written by syncModelData and by the teardowns.
NextTree ==
    \/ \E c \in Comps : Create(c)
    \/ \E c \in Comps : Ready(c)
    \/ \E c \in {2, 3} : Destroy(c)
    \/ \E c \in {2, 3}, scope \in {"undefined", "local"} :
          MountModelData(c, 1, Obj(1), Opts(None, scope, "undefined"))
    \/ \E c \in {2, 3} :
          SelectModelData(c, 1, [f |-> "likes", eq |-> "is"])
    \/ \E c \in {2, 3} : SetModelData(c, 1, Obj(2))
    \/ \E c \in {2, 3} : UpdateModelData(c, 1, "like")
    \/ \E s \in Stores : SyncModelData(s, Obj(2))
    \/ \E k \in SelIds : SubscribeSelector(1, k)
    \/ UnsubscribeSelector(1)

SpecTree == Init /\ [][NextTree]_vars

\* Two contexts: one made with { name } only, one with defaultScope
\* 'global' and an initial value.  A component provides into either with
\* every opts (also an explicit store: a global store or a store an earlier
\* call made) and may mount, and the global stores are written and read.
NextContexts ==
    \/ Create(1)
    \/ Ready(1)
    \/ \E x \in Contexts, o \in ProvideOpts :
          ProvideModelData(1, x, Obj(1), o)
    \/ MountModelData(1, 1, Obj(1), Opts(None, "undefined", "false"))
    \/ \E x \in Contexts, v \in {Null, Obj(2)} : SetGlobalModelData(x, v)
    \/ \E x \in Contexts : GetGlobalModelData(x)

SpecContexts == Init /\ [][NextContexts]_vars

\* Falling back to the global store: a parent and its child select and
\* set, update or get the current store, where nothing may be registered
\* (the first context's selectors read the likes, the others the post);
\* they may also provide or mount with resolved scope local, and the child
\* is torn down.  A consumer subscribes to a selector and an observer to
\* the first context's global store.
NextFallback ==
    \/ \E c \in {1, 2} : Create(c)
    \/ \E c \in {1, 2} : Ready(c)
    \/ Destroy(2)
    \/ \E c \in {1, 2}, x \in Contexts :
          SelectModelData(c, x, [f |-> IF x = 1 THEN "likes" ELSE "ident",
                                 eq |-> "is"])
    \/ ProvideModelData(1, 1, Obj(1), [store |-> None, scope |-> "local"])
    \/ MountModelData(2, 1, Obj(1), Opts(None, "undefined", "undefined"))
    \/ \E c \in {1, 2}, x \in Contexts : SetModelData(c, x, Obj(2))
    \/ \E c \in {1, 2} : UpdateModelData(c, 1, "like")
    \/ \E c \in {1, 2} : GetModelData(c, 1)
    \/ \E k \in SelIds : SubscribeSelector(1, k)
    \/ SubscribeStore(1, globalStore(1))

SpecFallback == Init /\ [][NextFallback]_vars

\* Notification: a component selects from the global store and binds its
\* actions; consumers subscribe to the selectors, and observers (one that
\* only records, one that writes back) to the global store; the closures
\* write.
NextReact ==
    \/ Create(1)
    \/ Ready(1)
    \/ SelectModelData(1, 1, [f |-> "likes", eq |-> "is"])
    \/ UseModelActions(1, 1)
    \/ \E v \in Models : HandleSet(1, v)
    \/ \E fn \in Updaters : HandleUpdate(1, fn)
    \/ \E o \in Observers : SubscribeStore(o, globalStore(1))
    \/ \E o \in Observers : UnsubscribeStore(o)
    \/ \E i \in Consumers, k \in SelIds : SubscribeSelector(i, k)
    \/ \E i \in Consumers : UnsubscribeSelector(i)

SpecReact == Init /\ [][NextReact]_vars

(* ------------------------------ claims ---------------------------------- *)
Range(list) == {list[n] : n \in 1..Len(list)}
Final(log) == log[Len(log)]
SelEntry(k) == [t |-> "sel", id |-> k]
Subscribed(i) == cons[i].sel # None

\* C1: the values delivered to a subscriber of a selector during one
\* subscription never contain two consecutive values that are equal under
\* the selector's equality function.
C1_NoConsecutiveEqual ==
    \A i \in Consumers :
        Subscribed(i) =>
            \A n \in 1..(Len(cons[i].log) - 1) :
                ~Equals(sels[cons[i].sel].eq, cons[i].log[n],
                        cons[i].log[n + 1])

\* a subscriber has been delivered two values, and the source store now
\* holds a value it was not told about (the change was suppressed)
C1_Witness ==
    \E i \in Consumers :
        /\ Subscribed(i)
        /\ Len(cons[i].log) = 2
        /\ sels[cons[i].sel].f = "ident"
        /\ value[sels[cons[i].sel].src] # Final(cons[i].log)

\* C6: in every state the value last delivered to each subscriber of a
\* selector, the value delivered at subscription included, is equal under
\* the selector's equality function to the projection of the source
\* store's current value.
C6_LatestProjection ==
    \A i \in Consumers :
        Subscribed(i) =>
            LET sl == sels[cons[i].sel]
            IN Equals(sl.eq, Final(cons[i].log),
                      Project(sl.f, value[sl.src]))

\* a subscriber that has just subscribed was delivered a value that differs
\* from the one computed when the selector was created
C6_Witness ==
    \E i \in Consumers :
        /\ Subscribed(i)
        /\ Len(cons[i].log) = 1
        /\ ~Equals(sels[cons[i].sel].eq, sels[cons[i].sel].initial,
                   Final(cons[i].log))

\* C8 as stated: every selector that exists holds a subscription on its
\* source store, whether or not anybody subscribes to the selector.
C8_SubscribedFromCreation ==
    \A k \in SelIds :
        sels[k].src # None => SelEntry(k) \in Range(subs[sels[k].src])

\* C8 amended: a selector holds a subscription on its source store exactly
\* while the selector itself has at least one subscriber.
C8_SubscribedWhileUsed ==
    \A k \in SelIds :
        sels[k].src # None =>
            (SelEntry(k) \in Range(subs[sels[k].src])
                <=> SubscribersOf(cons, k) # {})

\* a selector whose subscribers have all left, after a delivery to one
C8_Witness ==
    \E k \in SelIds :
        /\ sels[k].src # None
        /\ SubscribersOf(cons, k) = {}
        /\ sels[k].value # sels[k].initial
        /\ subs[sels[k].src] = << >>

\* the writes the operation of a step makes, in order: <<store, value>> each
WriteOps == {"sync", "setGlobal", "handleSet", "handleUpdate", "set",
             "update", "provide", "mount"}
WritesOf(op) ==
    IF op.op \in WriteOps THEN << <<op.store, op.val>> >>
    ELSE IF op.op = "destroy"
         THEN [n \in 1..Len(destroy[op.comp]) |->
                 <<destroy[op.comp][n], Null>>]
         ELSE << >>

\* log, then every value written to store s
RECURSIVE AllWrites(_, _, _, _)
AllWrites(log, ws, n, s) ==
    IF n > Len(ws) THEN log
    ELSE AllWrites(IF ws[n][1] = s THEN Trunc(Append(log, ws[n][2]))
                   ELSE log, ws, n + 1, s)

\* log, then every value written to store s over a current value cur that
\* is an object or is another value
RECURSIVE EffectiveWrites(_, _, _, _, _)
EffectiveWrites(log, cur, ws, n, s) ==
    IF n > Len(ws) THEN log
    ELSE IF ws[n][1] = s /\ (cur.k = "obj" \/ cur # ws[n][2])
         THEN EffectiveWrites(Trunc(Append(log, ws[n][2])), ws[n][2], ws,
                              n + 1, s)
         ELSE EffectiveWrites(log, cur, ws, n + 1, s)

Observing(o) == obs[o].store # None /\ obs'[o].store = obs[o].store

\* C7 as stated: every write to a store appends its value to the sequence a
\* direct subscriber of that store observes.
C7_EveryWriteObserved ==
    [][\A o \in Observers :
          Observing(o) =>
              obs'[o].log =
                  AllWrites(obs[o].log, WritesOf(last'), 1, obs[o].store)]_vars

\* C7 amended: a write appends its value to the sequence a direct
\* subscriber observes, in order, unless it writes to a store that holds
\* null (or another primitive) the value the store already holds: that
\* write is not notified.
C7_EffectiveWriteObserved ==
    [][\A o \in Observers :
          Observing(o) =>
              obs'[o].log =
                  EffectiveWrites(obs[o].log, value[obs[o].store],
                                  WritesOf(last'), 1, obs[o].store)]_vars

\* a direct subscriber has observed two writes, the second of the object
\* the store already held
C7_Witness ==
    \E o \in Observers :
        /\ obs[o].store # None
        /\ Len(obs[o].log) = 2
        /\ obs[o].log[1] = obs[o].log[2]
        /\ obs[o].log[1].k = "obj"
        /\ last.op \in WriteOps

\* a is c or an ancestor of c
RECURSIVE InScopeOf(_, _)
InScopeOf(a, c) ==
    IF c = None THEN FALSE
    ELSE IF a = c THEN TRUE
    ELSE InScopeOf(a, Parent(c))

\* the components at or above c that registered a store under x's key
Providers(c, x) ==
    {a \in Comps : InScopeOf(a, c) /\ context[a][KeyOf(x)] # None}

\* the closest of them (a descendant has a larger number than its ancestors)
Closest(S) == CHOOSE a \in S : \A b \in S : b <= a

\* C2: resolving the store never yields "no store".  With fallback 'global'
\* it yields the store registered by the closest provider at or above the
\* caller, or the context's global store when there is none; with fallback
\* 'throw' it fails exactly when there is none.
C2_ResolveStore ==
    \A c \in Comps, x \in Contexts :
        phase[c] = "init" =>
            /\ useModelStore(c, x, "global") \in 1..nStores
            /\ useModelStore(c, x, "global") =
                  IF Providers(c, x) = {} THEN globalStore(x)
                  ELSE context[Closest(Providers(c, x))][KeyOf(x)]
            /\ useModelStore(c, x, "throw") = Throw <=> Providers(c, x) = {}
            /\ Providers(c, x) # {} =>
                  useModelStore(c, x, "throw") =
                      context[Closest(Providers(c, x))][KeyOf(x)]

\* a child resolved the store its parent registered, and a component with
\* no provider above it is being set up (where 'throw' fails)
C2_Witness ==
    /\ last.op = "useModelStore"
    /\ last.comp # 1
    /\ context[last.comp][1] = None
    /\ last.store = context[Parent(last.comp)][1]
    /\ last.store \notin {None, globalStore(1)}

\* component c is torn down in this step
TornDown(c) == phase[c] = "live" /\ phase'[c] = "dead"

\* C3 as stated: after the teardown of a component, a store it mounted holds
\* null if and only if that mount did not set resetOnDestroy to false, and
\* with resetOnDestroy = false the teardown leaves its value unchanged.
C3_NullIffReset ==
    [][\A c \in Comps : TornDown(c) =>
          \A m \in mounts[c] :
              /\ value'[m.store] = Null <=> m.resetOnDestroy # "false"
              /\ m.resetOnDestroy = "false" =>
                    value'[m.store] = value[m.store]]_vars

\* C3 amended: after the teardown of a component, a store it mounted without
\* resetOnDestroy = false holds null; a store it mounted only with
\* resetOnDestroy = false keeps the value it had (null if it held null).
C3_ResetUnlessDisabled ==
    [][\A c \in Comps : TornDown(c) =>
          \A m \in mounts[c] :
              /\ m.resetOnDestroy # "false" => value'[m.store] = Null
              /\ (\A m2 \in mounts[c] :
                      m2.store = m.store => m2.resetOnDestroy = "false")
                    => value'[m.store] = value[m.store]]_vars

\* a torn-down component that mounted one store with the reset and another
\* with resetOnDestroy = false: the first holds null, the second does not
C3_Witness ==
    \E c \in Comps :
        /\ phase[c] = "dead"
        /\ last = Op("destroy", c, None, Null)
        /\ \E m1, m2 \in mounts[c] :
              /\ m1.resetOnDestroy = "undefined"
              /\ m2.resetOnDestroy = "false"
              /\ value[m1.store] = Null
              /\ value[m2.store] # Null

\* C4 as stated: the value of a context's global store changes only in a
\* step of an explicit write to it, never in a teardown.
C4_GlobalNeverReset ==
    [][\A x \in Contexts :
          value'[globalStore(x)] # value[globalStore(x)] =>
              last'.op \in WriteOps /\ last'.store = globalStore(x)]_vars

\* C4 amended: the value of a context's global store changes only in a step
\* of an explicit write to it, or in the teardown of a component that
\* mounted the global store without resetOnDestroy = false.
C4_GlobalResetOnlyByItsMount ==
    [][\A x \in Contexts :
          value'[globalStore(x)] # value[globalStore(x)] =>
              \/ last'.op \in WriteOps /\ last'.store = globalStore(x)
              \/ /\ last'.op = "destroy"
                 /\ \E m \in mounts[last'.comp] :
                       /\ m.store = globalStore(x)
                       /\ m.resetOnDestroy # "false"]_vars

\* a component that mounted only a local store has been torn down while the
\* global store holds a value, and one that mounted the global store with
\* resetOnDestroy = false is still there
C4_Witness ==
    \E c, d \in Comps :
        /\ last = Op("destroy", c, None, Null)
        /\ mounts[c] # {}
        /\ \A m \in mounts[c] : m.store # globalStore(1)
        /\ [store |-> globalStore(1), resetOnDestroy |-> "false"] \in mounts[d]
        /\ value[globalStore(1)] # Null

\* C9: the closures of a handle act on the store returned when the handle
\* was bound: set writes its value there and changes no other store, update
\* writes the updater's result there, get reads there; the handle never
\* changes.
C9_ClosuresKeepTheirStore ==
    [][/\ \A c \in Comps :
            handle[c].store # None => handle'[c] = handle[c]
       /\ last'.op = "handleSet" =>
            value' = [value EXCEPT ![handle[last'.comp].store] = last'.val]
       /\ last'.op = "handleUpdate" =>
            \E fn \in Updaters :
                value' = [value EXCEPT ![handle[last'.comp].store] =
                            Apply(fn, value[handle[last'.comp].store])]
       /\ last'.op = "handleGet" =>
            last'.val = value[handle[last'.comp].store]]_vars

\* a closure has written to the store it was bound to, after its component
\* registered another store and was torn down
C9_Witness ==
    /\ last.op = "handleSet"
    /\ phase[last.comp] = "dead"
    /\ useModelStore(last.comp, handle[last.comp].ctx, "global")
          # handle[last.comp].store
    /\ value[handle[last.comp].store] = last.val
    /\ last.val # Null

Siblings(a, b) == a # b /\ Parent(a) # None /\ Parent(a) = Parent(b)

\* the operation of this step writes to store s: a write given or resolved
\* to s, or the teardown of a component that mounted s with the reset
WriteTo(s) ==
    \/ last'.op \in WriteOps /\ last'.store = s
    \/ /\ last'.op = "destroy"
       /\ \E m \in mounts[last'.comp] :
             m.store = s /\ m.resetOnDestroy # "false"

\* C5: the stores two siblings mounted with scope local are different
\* stores, and a write to the one (set, update, sync, teardown reset)
\* changes neither the value of the other nor what a selector of the other
\* has delivered.  (Every mount of SpecTree is a mount with scope local.)
C5_SiblingStoresIsolated ==
    [][\A a, b \in Comps : Siblings(a, b) =>
          \A ma \in mounts[a], mb \in mounts[b] :
              /\ ma.store # mb.store
              /\ WriteTo(ma.store) =>
                    /\ value'[mb.store] = value[mb.store]
                    /\ \A i \in Consumers :
                          Subscribed(i) /\ sels[cons[i].sel].src = mb.store
                              => cons'[i] = cons[i]]_vars

\* a sibling has just updated the store it mounted while a consumer is
\* subscribed to a selector of the store the other sibling mounted
C5_Witness ==
    \E a, b \in Comps :
        /\ Siblings(a, b)
        /\ last.op = "update" /\ last.comp = a
        /\ \E ma \in mounts[a], mb \in mounts[b] :
              /\ last.store = ma.store
              /\ value[ma.store] = Obj(2)
              /\ value[mb.store] = Obj(1)
              /\ \E i \in Consumers :
                    /\ Subscribed(i)
                    /\ sels[cons[i].sel].src = mb.store
                    /\ sels[cons[i].sel].owner = b

\* the operation of this step writes to store s
WrittenTo(s) ==
    \E n \in 1..Len(WritesOf(last')) : WritesOf(last')[n][1] = s

\* C10: a selector keeps the source store resolved when it was created:
\* its subscription is on that store and no other, whatever is registered
\* later, and a value is delivered to its subscribers only in a step that
\* writes to that store.
C10_SelectorKeepsItsStore ==
    [][\A k \in SelIds : sels[k].src # None =>
          /\ sels'[k].src = sels[k].src
          /\ \A s \in Stores :
                SelEntry(k) \in Range(subs'[s]) => s = sels[k].src
          /\ \A i \in Consumers :
                (cons[i].sel = k /\ cons'[i].sel = k
                    /\ cons'[i].log # cons[i].log)
                  => WrittenTo(sels[k].src)]_vars

\* a component selected and then registered another store in its own
\* scope; a subscriber of the selector was delivered a second value
C10_Witness ==
    \E k \in SelIds, i \in Consumers :
        /\ sels[k].src # None
        /\ context[sels[k].owner][1] \notin {None, sels[k].src}
        /\ cons[i].sel = k
        /\ Len(cons[i].log) = 2
        /\ last.op = "sync" /\ last.store = sels[k].src

\* the calls that register a store in the caller's scope
RegOps == {"provide", "mount", "provideStore"}

\* the store the current store resolves to at component d
Resolved(d, x) == useModelStore(d, x, "global")

\* a registered at or above d, with no registration between a and d
ClosestAbove(a, d, x) ==
    /\ InScopeOf(a, d)
    /\ context[a][KeyOf(x)] # None
    /\ \A b \in Comps :
          (b # a /\ InScopeOf(a, b) /\ InScopeOf(b, d))
              => context[b][KeyOf(x)] = None

\* C11: the registration of a scope is the store of the last provide, mount
\* or provideStore call made there: such a call registers the store it
\* returns, replacing what was registered, a scope's registration changes in
\* no other step, and resolving from the scope or from a descendant with no
\* closer registration returns the registered store.
C11_LastRegistrationWins ==
    [][/\ last'.op \in RegOps =>
             context'[last'.comp][KeyOf(last'.ctx)] = last'.store
       /\ \A c \in Comps, x \in Contexts :
             ~(last'.op \in RegOps /\ last'.comp = c /\ last'.ctx = x)
                 => context'[c][KeyOf(x)] = context[c][KeyOf(x)]
       /\ \A a, d \in Comps, x \in Contexts :
             (phase'[d] = "init" /\ ClosestAbove(a, d, x)')
                 => Resolved(d, x)' = context'[a][KeyOf(x)]]_vars

\* a component mounted a store and then registered another one; its child,
\* which registered nothing, resolved the store registered last
C11_Witness ==
    \E c, d \in Comps :
        /\ Parent(d) = c
        /\ mounts[c] # {}
        /\ context[c][KeyOf(1)] \notin {None} \cup {m.store : m \in mounts[c]}
        /\ context[d][KeyOf(1)] = None
        /\ last.op = "useModelStore" /\ last.comp = d
        /\ last.store = context[c][KeyOf(1)]

GlobalOps == {"setGlobal", "getGlobal"}

\* C12: the global store of context x is the store made when the context
\* was created (store number x), in every state: setGlobal and getGlobal of
\* context x act on that store, setGlobal leaves its value there and
\* getGlobal returns the value held there; and a write to the global store
\* of one context leaves the global store of every other context unchanged.
C12_OneGlobalStorePerContext ==
    [][\A x \in Contexts :
          /\ (last'.ctx = x /\ last'.op \in GlobalOps) => last'.store = x
          /\ (last'.ctx = x /\ last'.op = "setGlobal") =>
                value'[x] = last'.val
          /\ (last'.ctx = x /\ last'.op = "getGlobal") =>
                last'.val = value[x]
          /\ \A y \in Contexts \ {x} :
                (last'.op \in WriteOps /\ last'.store = x)
                    => value'[y] = value[y]]_vars

\* both global stores have been written, the second context's last, and
\* they hold different values
C12_Witness ==
    /\ last.op = "setGlobal" /\ last.ctx = 2
    /\ value[1] = Obj(2)
    /\ value[2] = Null

\* C13 as stated: when no component has called mount, a select resolves to
\* the context's global store and the selector's value is the projection of
\* the global store's initial value.
C13_FallbackWithoutMount ==
    [][(last'.op = "select" /\ \A c \in Comps : mounts[c] = {}) =>
          /\ last'.store = globalStore(last'.ctx)
          /\ sels'[FreeSel].value =
                Project(sels'[FreeSel].f, GlobalInitial(last'.ctx))]_vars

\* C13 amended: when no store is registered at the selecting component or
\* above it, a select resolves to the context's global store and the
\* selector's value is the projection of the value that store holds; the
\* global store holds its initial value (null unless initial was supplied)
\* until a step writes to it.
C13_FallbackWhenUnregistered ==
    /\ \A x \in Contexts : value[globalStore(x)] = GlobalInitial(x)
    /\ [][/\ (last'.op = "select" /\ Providers(last'.comp, last'.ctx) = {})
                => /\ last'.store = globalStore(last'.ctx)
                   /\ sels'[FreeSel].src = globalStore(last'.ctx)
                   /\ sels'[FreeSel].value =
                         Project(sels'[FreeSel].f,
                                 value[globalStore(last'.ctx)])
          /\ \A x \in Contexts :
                value'[globalStore(x)] # value[globalStore(x)]
                    => WrittenTo(globalStore(x))]_vars

\* a child selected from the context made with an initial value, where
\* nothing is registered: the selector holds the initial post
C13_Witness ==
    /\ last.op = "select" /\ last.ctx = 2 /\ last.comp = 2
    /\ Providers(2, 2) = {}
    /\ \E k \in SelIds :
          /\ sels[k].owner = 2
          /\ sels[k].src = globalStore(2)
          /\ sels[k].value = Obj(1)
          /\ value[globalStore(2)] = GlobalInitial(2)

\* C14: after sync(store, data) the store holds data, whatever it held
\* before and whatever data is (null included), so a read of the store
\* returns data; every other store keeps its value, and no registration, no
\* subscription and no store is added or removed.
C14_SyncOverwrites ==
    [][last'.op = "sync" =>
          /\ value' = [value EXCEPT ![last'.store] = last'.val]
          /\ get([Heap EXCEPT !.value = value'], last'.store) = last'.val
          /\ context' = context
          /\ subs' = subs
          /\ nStores' = nStores]_vars

\* null has just been synced into a registered store that held an object,
\* and the store's subscriber was told
C14_Witness ==
    /\ last.op = "sync" /\ last.val = Null
    /\ context[1][KeyOf(1)] = last.store
    /\ value[last.store] = Null
    /\ \E o \in Observers :
          /\ obs[o].store = last.store
          /\ Len(obs[o].log) = 2
          /\ obs[o].log[1] # Null
          /\ obs[o].log[2] = Null

\* the scope a call with opts o resolves to in context x: opts.scope, else
\* the context's defaultScope, else local
ScopeOf(o, x) ==
    IF o.scope # "undefined" THEN o.scope
    ELSE IF OptionsOf(x).defaultScope # "undefined"
         THEN OptionsOf(x).defaultScope
         ELSE "local"

\* C15: provide (and mount, which calls it) returns opts.store when one is
\* given, whatever the scope; otherwise the context's global store when the
\* resolved scope is global; otherwise a new store, different from every
\* store that existed.  The returned store is registered under the
\* context's key for the caller and holds data.
C15_ProvideChoosesStore ==
    [][last'.op \in {"provide", "mount"} =>
          LET o == last'.opts
              x == last'.ctx
          IN /\ o.store # None =>
                   last'.store = o.store /\ nStores' = nStores
             /\ (o.store = None /\ ScopeOf(o, x) = "global") =>
                   last'.store = x /\ nStores' = nStores
             /\ (o.store = None /\ ScopeOf(o, x) = "local") =>
                   /\ last'.store \notin 1..nStores
                   /\ 1..nStores' = 1..nStores \cup {last'.store}
             /\ context'[last'.comp][KeyOf(x)] = last'.store
             /\ value'[last'.store] = last'.val]_vars

\* provide with scope local in the context whose default scope is global
\* made a new store, after a provide with an explicit store and scope
\* global had registered that explicit store in the other context
C15_Witness ==
    /\ last.op = "provide" /\ last.ctx = 2
    /\ last.opts = [store |-> None, scope |-> "local"]
    /\ last.store > NumContexts
    /\ context[1][KeyOf(2)] = last.store
    /\ context[1][KeyOf(1)] = globalStore(2)

\* the calls the write of this step makes, in order (the step is a single
\* write: its store and value are in last')
TraceOf(op) == writableSet(Heap, op.store, op.val).trace

\* the subscribers invoked with value w in a trace, in order
RunsWith(tr, w) ==
    LET runs == SelectSeq(tr, LAMBDA e : e.e = "run" /\ e.v = w)
    IN [n \in 1..Len(runs) |-> [t |-> runs[n].t, id |-> runs[n].id]]

\* the position where the set() entered at position p returns
Match(tr, p) ==
    CHOOSE q \in (p + 1)..Len(tr) :
        /\ tr[q].e = "return" /\ tr[q].id = tr[p].id /\ tr[q].v = tr[p].v
        /\ \A r \in (p + 1)..(q - 1) :
              ~(tr[r].e = "return" /\ tr[r].id = tr[p].id
                    /\ tr[r].v = tr[p].v)

\* C16 as stated: every set() of a write, also one a subscriber calls
\* during a notification pass, has invoked every subscriber of the store
\* with the written value, in subscription order, when it returns.
C16_NotifiedBeforeReturn ==
    [][last'.op \in WriteOps =>
          \A tr \in {TraceOf(last')} :
              \A p \in 1..Len(tr) :
                  tr[p].e = "set" =>
                      RunsWith(SubSeq(tr, p + 1, Match(tr, p) - 1), tr[p].v)
                          = subs[tr[p].id]]_vars

\* C16 amended: a write that changes the store (not the null or primitive
\* it holds) has every subscriber of the store invoked with the written
\* value, once and in subscription order, before the operation returns; a
\* write that changes nothing invokes nobody.  For a write issued outside a
\* notification pass that is before its set() returns.  For a write a
\* subscriber issues during a pass, set() returns first: the invocations
\* follow it, after those of the writes before it for each subscriber.
C16_NotifiedInOrder ==
    [][last'.op \in WriteOps =>
          \A tr \in {TraceOf(last')} :
              LET s == last'.store
                  Changed(p) == tr[p].e = "set" /\ tr[p + 1].e = "changed"
                  RunOf(r, p) == tr[r].e = "run" /\ tr[r].v = tr[p].v
              IN /\ tr[1].e = "set" /\ Match(tr, 1) = Len(tr)
                 /\ Changed(1) <=>
                       (value[s].k = "obj" \/ value[s] # last'.val)
                 /\ ~Changed(1) => Len(tr) = 2
                 /\ \A p \in 1..Len(tr) :
                       Changed(p) =>
                           /\ RunsWith(tr, tr[p].v) = subs[tr[p].id]
                           /\ \A r \in 1..Len(tr) :
                                 RunOf(r, p) =>
                                     /\ r > p
                                     /\ p > 1 => r > Match(tr, p)
                                     /\ \A p2 \in 1..(p - 1) :
                                         \A r2 \in 1..Len(tr) :
                                           (Changed(p2) /\ RunOf(r2, p2)
                                               /\ tr[r2].id = tr[r].id
                                               /\ tr[r2].t = tr[r].t)
                                             => r2 < r]_vars

\* a write of a post nobody likes has been answered, during its pass, by
\* the subscriber that writes back; the subscriber that subscribed after it
\* has seen both values in the order they were written
C16_Witness ==
    /\ last.op \in WriteOps /\ last.val = Obj(1)
    /\ value[last.store] = Obj(2)
    /\ Len(subs[last.store]) >= 2
    /\ subs[last.store][1] = [t |-> "obs", id |-> 2]
    /\ \E o \in Passive :
          /\ obs[o].store = last.store
          /\ obs[o].log = <<Obj(1), Obj(2)>>

\* the number of entries of a trace that are call e for id
Count(tr, e, id) ==
    Len(SelectSeq(tr, LAMBDA x : x.e = e /\ x.id = id))

\* C17: in a write to the source store of a selector that has one or more
\* subscribers, the selector function is called exactly once and the
\* equality function exactly once for each change of the store, however
\* many subscribers the selector has.
C17_OneProjectionPerChange ==
    [][last'.op \in WriteOps =>
          \A tr \in {SelectSeq(TraceOf(last'), LAMBDA x : x.e # "run")} :
              \A k \in SelIds :
                  (sels[k].src = last'.store /\ SubscribersOf(cons, k) # {})
                      => /\ Count(tr, "project", k)
                              = Count(tr, "changed", last'.store)
                         /\ Count(tr, "equals", k)
                              = Count(tr, "changed", last'.store)]_vars

\* a write has just changed the source store of a selector with two
\* subscribers, and both were delivered the new projection
C17_Witness ==
    \E k \in SelIds :
        /\ sels[k].src # None
        /\ last.op \in WriteOps /\ last.store = sels[k].src
        /\ Cardinality(SubscribersOf(cons, k)) >= 2
        /\ \A i \in SubscribersOf(cons, k) :
              /\ Len(cons[i].log) = 2
              /\ Final(cons[i].log) = Project(sels[k].f, last.val)

\* provide or mount called with no explicit store and resolved scope local
LocalCall(op) ==
    /\ op.op \in {"provide", "mount"}
    /\ op.opts.store = None
    /\ ScopeOf(op.opts, op.ctx) = "local"

\* the teardown of a component whose mounts all made local stores
LocalTeardown(op) ==
    /\ op.op = "destroy"
    /\ \A m \in mounts[op.comp] :
          m.store \notin {globalStore(x) : x \in Contexts}

\* this step leaves store g as it is: its value, what its subscribers were
\* told, and its selectors and what their subscribers were told
Untouched(g) ==
    /\ value'[g] = value[g]
    /\ \A o \in Observers : obs[o].store = g => obs'[o] = obs[o]
    /\ \A k \in SelIds : sels[k].src = g => sels'[k] = sels[k]
    /\ \A i \in Consumers :
          (Subscribed(i) /\ sels[cons[i].sel].src = g) => cons'[i] = cons[i]

\* C18: provide and mount with resolved scope local and no explicit store,
\* and the teardown of a component that mounted only such stores, leave
\* every context's global store untouched: its value does not change and
\* neither its subscribers nor the subscribers of its selectors are
\* notified.
C18_LocalLeavesGlobalAlone ==
    [][(LocalCall(last') \/ LocalTeardown(last')) =>
          \A x \in Contexts : Untouched(globalStore(x))]_vars

\* a child that mounted a local store has been torn down and its store
\* reset, while the global store holds what was set where nothing was
\* registered, as its subscriber and the subscriber of a selector that fell
\* back to it were told
C18_Witness ==
    /\ last.op = "destroy" /\ mounts[last.comp] # {}
    /\ \A m \in mounts[last.comp] :
          m.store # globalStore(1) /\ value[m.store] = Null
    /\ value[globalStore(1)] = Obj(2)
    /\ obs[1].store = globalStore(1) /\ Final(obs[1].log) = Obj(2)
    /\ Subscribed(1)
    /\ sels[cons[1].sel].src = globalStore(1)
    /\ Final(cons[1].log) = Num(1)

\* how many times e occurs in a list
Occurrences(list, e) == Len(SelectSeq(list, LAMBDA y : y = e))

\* C19: in every state a selector has exactly one subscription on its
\* source store if it has at least one subscriber and none if it has no
\* subscriber (none left after the last one unsubscribed), and it never has
\* a subscription on another store.
C19_AtMostOneUpstream ==
    \A k \in SelIds :
        sels[k].src # None =>
            \A s \in Stores :
                Occurrences(subs[s], SelEntry(k)) =
                    IF s = sels[k].src /\ SubscribersOf(cons, k) # {}
                    THEN 1 ELSE 0

\* a second subscriber has just joined a selector, which has one
\* subscription on its source; another selector, whose subscribers have
\* left after a delivery, has none
C19_Witness ==
    \E k, k2 \in SelIds :
        /\ k # k2
        /\ sels[k].src # None /\ sels[k2].src # None
        /\ Cardinality(SubscribersOf(cons, k)) = 2
        /\ SubscribersOf(cons, k2) = {}
        /\ sels[k2].value # sels[k2].initial
        /\ subs[sels[k].src] = <<SelEntry(k)>>
        /\ last.op = "subscribeSelector"

\* C20: set, update and get called by a component with no store registered
\* at or above it do not fail: they act on the context's global store.
\* After such a set(value) the global store holds value (getGlobal returns
\* it), its subscribers have been told value, and the subscribers of the
\* selectors that fell back to it hold the projection of value; update
\* leaves the updater's result there and get returns the value held there.
C20_UnregisteredActsOnGlobal ==
    [][(last'.op \in {"set", "update", "get"}
           /\ Providers(last'.comp, last'.ctx) = {}) =>
          LET g == globalStore(last'.ctx)
          IN /\ last'.store # Throw
             /\ last'.store = g
             /\ last'.op \in {"set", "update"} =>
                   /\ value'[g] = last'.val
                   /\ get([Heap EXCEPT !.value = value'], g) = last'.val
                   /\ \A o \in Observers :
                         obs[o].store = g => Final(obs'[o].log) = last'.val
                   /\ \A i \in Consumers :
                         (Subscribed(i) /\ sels[cons[i].sel].src = g) =>
                             Final(cons'[i].log) =
                                 Project(sels[cons[i].sel].f, last'.val)
             /\ last'.op = "get" => last'.val = value[g]]_vars

\* a child with nothing registered above it has set a post; the global
\* store holds it and the subscriber of a selector that fell back to the
\* global store was delivered its likes
C20_Witness ==
    /\ last.op = "set" /\ last.comp = 2 /\ last.ctx = 1
    /\ Providers(2, 1) = {}
    /\ value[globalStore(1)] = last.val
    /\ Subscribed(1)
    /\ sels[cons[1].sel].src = globalStore(1)
    /\ cons[1].log = <<Num(0), Num(1)>>

====
